---- MODULE Spec2Model ----
(***************************************************************************)
(* faro: dependency-update orchestrator.                                   *)
(* Model of app.Run (scan -> classify -> render or pick -> update), of the *)
(* classification (groupModules), of the npm and Go adapters' GetUpdates,  *)
(* and of the interactive picker (tui.model, Update,                       *)
(* StartInteractiveGroupedWithOptions).                                    *)
(***************************************************************************)
EXTENDS Integers, Sequences, FiniteSets, TLC

\* Largest number of entries a package-manager tool reports in one scan.
MaxMods == 2

\* An index far outside every choices list; the tests force 999.
ForcedIndex == 5

\* Longest list handed to groupModules on its own.
MaxList == 3

-----------------------------------------------------------------------------
(* Values *)

NoVersion == << >>

\* Instants are counted in half days; Day is one day.
Day == 2

\* The injected clock (the tests' fixedNow).
InjectedNow == 20

\* A timestamp string: an RFC 3339 rendering of an instant, the empty
\* string, or text that is not a timestamp.
RFC3339(at) == [kind |-> "rfc3339", at |-> at]
NoTime      == [kind |-> "missing", at |-> 0]
BadTime     == [kind |-> "garbage", at |-> 0]

\* time.Parse(time.RFC3339, ts) returns no error.
ParsesRFC3339(ts) == ts.kind = "rfc3339"

\* Go's int(x / d) for a float quotient: truncation toward zero.
TruncDiv(x, d) == IF x >= 0 THEN x \div d ELSE -((-x) \div d)

\* scanner.VulnInfo, and its zero value.
VulnInfo(low, medium, high, critical, total) ==
  [Low |-> low, Medium |-> medium, High |-> high, Critical |-> critical, Total |-> total]

NoVulns == VulnInfo(0, 0, 0, 0, 0)

\* scanner.Module, with Update == nil rendered as HasUpdate = FALSE.  The
\* adapters leave both vulnerability snapshots at their zero value.
Mod(name, path, cur, hasUpd, upd, direct, depType, indirect, fromGoMod) ==
  [Name |-> name, Path |-> path, Version |-> cur, HasUpdate |-> hasUpd,
   UpdateVersion |-> upd, UpdateTime |-> NoTime, Direct |-> direct,
   DependencyType |-> depType, Indirect |-> indirect, FromGoMod |-> fromGoMod,
   VulnCurrent |-> NoVulns, VulnUpdate |-> NoVulns]

\* The module with Update.Time set.
Published(mod, ts) == [mod EXCEPT !.UpdateTime = ts]

\* Go's string order on the names used here ("" sorts first).
NameRank(s) ==
  CASE s = ""  -> 0
    [] s = "a" -> 1
    [] s = "b" -> 2
    [] s = "c" -> 3
    [] s = "d" -> 4
    [] s = "e" -> 5
    [] s = "f" -> 6
    [] s = "g" -> 7
    [] OTHER   -> 8

StrLess(s, t) == NameRank(s) < NameRank(t)

\* name := m.Name; if name == "" { name = m.Path }
DisplayName(mod) == IF mod.Name = "" THEN mod.Path ELSE mod.Name

\* All orderings of a sequence.
SeqPerms(s) ==
  IF Len(s) = 0 THEN { << >> }
  ELSE { [i \in 1..Len(s) |-> s[p[i]]] : p \in Permutations(1..Len(s)) }

Range(s) == { s[i] : i \in 1..Len(s) }

\* All sequences without repetition, of length at most n, over the set S.
RECURSIVE DistinctSeqs(_, _)
DistinctSeqs(S, n) ==
  IF n = 0 THEN { << >> }
  ELSE LET shorter == DistinctSeqs(S, n - 1)
           longest == { s \in shorter : Len(s) = n - 1 }
       IN  shorter \cup
           UNION { { Append(s, x) : x \in S \ Range(s) } : s \in longest }

-----------------------------------------------------------------------------
(* format package: group keys and the --format flag *)

\* format.GroupSortKey: major < minor < patch < unspecified.
GroupSortKey(mod) ==
  LET c == mod.Version
      u == mod.UpdateVersion
  IN  IF ~mod.HasUpdate \/ c = NoVersion \/ u = NoVersion THEN 3
      ELSE IF c[1] # u[1] THEN 0
      ELSE IF c[2] # u[2] THEN 1
      ELSE IF c[3] # u[3] THEN 2
      ELSE 3

\* format.GroupLabel: the heading of a version-delta group.
GroupLabel(mod) ==
  CASE GroupSortKey(mod) = 0 -> "major"
    [] GroupSortKey(mod) = 1 -> "minor"
    [] GroupSortKey(mod) = 2 -> "patch"
    [] OTHER                 -> "other"

FormatTokens == {"group", "lines", "time"}

\* format.ParseFlag: comma-delimited modifiers, an unknown one is an error.
ParseFlag(flag) ==
  [Group |-> "group" \in Range(flag),
   Lines |-> "lines" \in Range(flag),
   Time  |-> "time" \in Range(flag),
   err   |-> \E i \in 1..Len(flag) : flag[i] \notin FormatTokens]

-----------------------------------------------------------------------------
(* Classification *)

DevLike == {"devDependencies", "dev", "indirect"}

\* Mutant of BucketOf: the legacy go.mod fields of a non-direct module
\* are ignored.
BucketOfNoLegacy(mod) ==
  IF mod.Direct
  THEN IF mod.DependencyType \in DevLike THEN "indirect" ELSE "direct"
  ELSE "transitive"

\* The bucket groupModules appends module mod to.
BucketOf(mod) ==
  IF mod.Direct
  THEN IF mod.DependencyType \in DevLike THEN "indirect" ELSE "direct"
  ELSE IF mod.FromGoMod
       THEN IF mod.Indirect THEN "indirect" ELSE "direct"
       ELSE "transitive"

RECURSIVE groupModulesFrom(_, _, _)
groupModulesFrom(modules, i, acc) ==
  IF i > Len(modules) THEN acc
  ELSE LET mod == modules[i]
           b == BucketOf(mod)
       IN  groupModulesFrom(modules, i + 1,
             [direct     |-> IF b = "direct" THEN Append(acc.direct, mod) ELSE acc.direct,
              indirect   |-> IF b = "indirect" THEN Append(acc.indirect, mod) ELSE acc.indirect,
              transitive |-> IF b = "transitive" THEN Append(acc.transitive, mod)
                             ELSE acc.transitive])

EmptyBuckets == [direct |-> << >>, indirect |-> << >>, transitive |-> << >>]

\* Mutant of groupModules: a module is put in front of its bucket.
groupModulesPrepending(modules) ==
  LET g == groupModulesFrom(modules, 1, EmptyBuckets)
      Reversed(q) == [i \in 1..Len(q) |-> q[Len(q) + 1 - i]]
  IN  [direct |-> Reversed(g.direct), indirect |-> Reversed(g.indirect),
       transitive |-> Reversed(g.transitive)]

groupModules(modules) == groupModulesFrom(modules, 1, EmptyBuckets)

-----------------------------------------------------------------------------
(* Name filter and cooldown *)

\* scanner.containsHelper: substr occurs in s at some offset.
containsHelper(s, substr) ==
  \E i \in 0..(Len(s) - Len(substr)) : SubSeq(s, i + 1, i + Len(substr)) = substr

\* scanner.contains.
contains(s, substr) ==
  Len(s) >= Len(substr) /\ (s = substr \/ containsHelper(s, substr))

\* Mutant of RegexCompiles: every pattern is accepted, and one that is not
\* a regular expression is then matched as literal text.
RegexCompilesAnything(pattern) == TRUE

\* regexp.Compile succeeds.  Of the patterns used here, those with an
\* unclosed group do not compile.
RegexCompiles(pattern) ==
  \A i \in 1..Len(pattern) : SubSeq(pattern, i, i) # "("

\* Regexp.MatchString for a compiled pattern made of an optional leading ^,
\* literal text, and an optional trailing $.
RegexMatches(pattern, s) ==
  LET atStart == Len(pattern) > 0 /\ SubSeq(pattern, 1, 1) = "^"
      p1      == IF atStart THEN SubSeq(pattern, 2, Len(pattern)) ELSE pattern
      atEnd   == Len(p1) > 0 /\ SubSeq(p1, Len(p1), Len(p1)) = "$"
      body    == IF atEnd THEN SubSeq(p1, 1, Len(p1) - 1) ELSE p1
  IN  \E i \in 0..(Len(s) - Len(body)) :
        /\ SubSeq(s, i + 1, i + Len(body)) = body
        /\ atStart => i = 0
        /\ atEnd => i + Len(body) = Len(s)

\* Mutant of CooledDown: an update exactly cooldownDays old is still
\* held back.
CooledDownInclusive(mod, cooldownDays, now) ==
  /\ cooldownDays > 0
  /\ mod.HasUpdate
  /\ ParsesRFC3339(mod.UpdateTime)
  /\ TruncDiv(now - mod.UpdateTime.at, Day) <= cooldownDays

\* FilterModules, the cooldown test: the module is dropped.
CooledDown(mod, cooldownDays, now) ==
  /\ cooldownDays > 0
  /\ mod.HasUpdate
  /\ ParsesRFC3339(mod.UpdateTime)
  /\ TruncDiv(now - mod.UpdateTime.at, Day) < cooldownDays

\* FilterModules, the loop from index i on.
RECURSIVE FilterFrom(_, _, _, _, _)
FilterFrom(modules, filter, cooldownDays, now, i) ==
  IF i > Len(modules) THEN << >>
  ELSE LET mod  == modules[i]
           rest == FilterFrom(modules, filter, cooldownDays, now, i + 1)
       IN  IF filter # "" /\ ~contains(DisplayName(mod), filter) THEN rest
           ELSE IF CooledDown(mod, cooldownDays, now) THEN rest
           ELSE << mod >> \o rest

\* scanner.FilterModules.
FilterModules(modules, filter, cooldownDays, now) ==
  IF filter = "" /\ cooldownDays = 0 THEN modules
  ELSE FilterFrom(modules, filter, cooldownDays, now, 1)

\* cooldown.Eligible: the update may be offered.  A timestamp that does not
\* parse never holds an update back.
Eligible(ts, days, now) ==
  ~ParsesRFC3339(ts) \/ now - ts.at >= days * Day

-----------------------------------------------------------------------------
(* Scanner adapters *)

\* All orderings of a finite set: the iteration orders of a Go map.
SetToSeqs(S) ==
  { s \in [1..Cardinality(S) -> S] : Range(s) = S }

\* The manifest of the project cannot be read: it does not exist, or it is
\* there but unreadable or malformed.
ManifestFails(scn) == scn.fault \in {"manifest-missing", "manifest-bad"}

\* GetUpdates returns an error.
Failed(err) == { [err |-> err, modules |-> << >>] }

\* GetUpdates returns the modules of a set, in the order the tool listed
\* them.
Found(mods) == { [err |-> "", modules |-> s] : s \in SetToSeqs(mods) }

\* npm Scanner.GetUpdates, the body of the loop over the outdated map:
\* the module built for one entry.
NpmModule(scn, info) ==
  LET isDirect    == info.name \in scn.Dependencies
      isDevDirect == info.name \in scn.DevDependencies
      depType == IF info.Type # "" THEN info.Type
                 ELSE IF isDirect THEN "dependencies"
                 ELSE IF isDevDirect THEN "devDependencies"
                 ELSE "transitive"
  IN  Mod(info.name, "", info.Current, TRUE, info.Latest,
          isDirect \/ isDevDirect, depType, FALSE, FALSE)

\* npm Scanner.GetUpdates: the results it may return, one per iteration
\* order of the outdated map.  The runner NewScanner installs drops the
\* error of the subprocess, so a failed `npm outdated` is empty output.
NpmGetUpdates(scn, o) ==
  IF ManifestFails(scn) THEN Failed("failed to read package.json")
  ELSE IF scn.fault = "tool" THEN Found({})
  ELSE IF scn.fault = "parse" THEN Failed("failed to parse npm outdated output")
  ELSE LET kept == { NpmModule(scn, info) : info \in scn.outdated }
           shown == { md \in kept :
                        /\ ~(~o.All /\ md.DependencyType = "devDependencies")
                        /\ ~(o.Filter # "" /\ ~contains(md.Name, o.Filter)) }
       IN  { [err |-> "", modules |-> s] : s \in SetToSeqs(shown) }

\* Go Scanner.annotateAndFilter.  The pattern has compiled when the filter
\* is not empty.
RECURSIVE annotateAndFilter(_, _, _, _, _)
annotateAndFilter(modules, idx, o, now, i) ==
  IF i > Len(modules) THEN << >>
  ELSE LET gm        == modules[i]
           fromGoMod == gm.Path \in (idx.direct \cup idx.indirect)
           indirect  == IF fromGoMod THEN gm.Path \in idx.indirect ELSE gm.Indirect
           depType   == IF ~fromGoMod THEN "transitive"
                        ELSE IF indirect THEN "indirect" ELSE "direct"
           match     == contains(gm.Path, o.Filter) \/ RegexMatches(o.Filter, gm.Path)
           rest      == annotateAndFilter(modules, idx, o, now, i + 1)
       IN  IF ~gm.HasUpdate THEN rest
           ELSE IF ~o.All /\ ~fromGoMod THEN rest
           ELSE IF o.Filter # "" /\ ~match THEN rest
           ELSE IF o.Cooldown > 0 /\ ~Eligible(gm.UpdateTime, o.Cooldown, now) THEN rest
           ELSE << Published(Mod(gm.Path, gm.Path, gm.Version, TRUE, gm.UpdateVersion,
                                 ~indirect, depType, indirect, fromGoMod),
                             gm.UpdateTime) >> \o rest

\* gomod.ReadRequireIndex: the require blocks of go.mod.  A go.mod that
\* does not exist is an empty index.
ReadRequireIndex(scn) ==
  CASE scn.fault = "manifest-bad"     -> [err |-> "read go.mod", idx |-> [direct |-> {}, indirect |-> {}]]
    [] scn.fault = "manifest-missing" -> [err |-> "", idx |-> [direct |-> {}, indirect |-> {}]]
    [] OTHER                          -> [err |-> "", idx |-> scn.idx]

\* time.Now(): the wall clock when the scan runs, which is the injected
\* clock or later.
WallClock == { InjectedNow, InjectedNow + 3 * Day }

\* Go Scanner.GetUpdates: the pattern is compiled before `go list` runs, and
\* the cooldown is measured from time.Now().
GoGetUpdates(scn, o) ==
  LET read == ReadRequireIndex(scn) IN
  IF read.err # ""
  THEN { [err |-> "failed to read go.mod", modules |-> << >>, cmds |-> << >>] }
  ELSE IF o.Filter # "" /\ ~RegexCompiles(o.Filter)
  THEN { [err |-> "invalid filter pattern", modules |-> << >>, cmds |-> << >>] }
  ELSE IF scn.fault = "tool"
  THEN { [err |-> "failed to run go list", modules |-> << >>, cmds |-> <<"go list">>] }
  ELSE IF scn.fault = "parse"
  THEN { [err |-> "failed to decode json", modules |-> << >>, cmds |-> <<"go list">>] }
  ELSE { [err |-> "", modules |-> annotateAndFilter(scn.mods, read.idx, o, now, 1),
          cmds |-> <<"go list">>] : now \in WallClock }

\* The module a Node adapter other than npm builds for one outdated entry.
NodeModule(scn, info) ==
  LET isDirect    == info.name \in scn.Dependencies
      isDevDirect == info.name \in scn.DevDependencies
      depType == IF isDevDirect THEN "devDependencies"
                 ELSE IF ~isDirect THEN "transitive"
                 ELSE "dependencies"
  IN  Mod(info.name, "", info.Current, TRUE, info.Latest,
          isDirect \/ isDevDirect, depType, FALSE, FALSE)

\* yarn Scanner.GetUpdates.  The runner drops the error of the subprocess,
\* and a line that is not JSON is skipped.
YarnGetUpdates(scn, o) ==
  IF ManifestFails(scn) THEN Failed("failed to read package.json")
  ELSE IF scn.fault \in {"tool", "parse"} THEN Found({})
  ELSE Found({ md \in { NodeModule(scn, info) : info \in scn.outdated } :
                 /\ ~(~o.All /\ md.DependencyType \in {"devDependencies", "transitive"})
                 /\ ~(o.Filter # "" /\ ~contains(md.Name, o.Filter)) })

\* pnpm Scanner.GetUpdates, on the object form of `pnpm outdated --json`.
PnpmGetUpdates(scn, o) ==
  IF ManifestFails(scn) THEN Failed("failed to read package.json")
  ELSE IF scn.fault = "tool" THEN Failed("failed to run pnpm outdated")
  ELSE IF scn.fault = "parse" THEN Failed("failed to parse pnpm outdated output")
  ELSE Found({ md \in { NodeModule(scn, info) : info \in scn.outdated } :
                 /\ ~(~o.All /\ md.DependencyType = "transitive")
                 /\ ~(o.Filter # "" /\ ~contains(md.Name, o.Filter)) })

\* pip Scanner.readRequirementsTxt: a missing file is an empty set.
readRequirementsTxt(scn) ==
  CASE scn.fault = "manifest-missing" -> [err |-> "", deps |-> {}]
    [] scn.fault = "manifest-bad"     -> [err |-> "read requirements.txt", deps |-> {}]
    [] OTHER                          -> [err |-> "", deps |-> scn.Dependencies]

\* pip Scanner.GetUpdates.
PipGetUpdates(scn, o) ==
  LET req == readRequirementsTxt(scn) IN
  IF req.err # "" THEN Failed("failed to read requirements.txt")
  ELSE IF scn.fault = "tool" THEN Failed("failed to run pip list --outdated")
  ELSE IF scn.fault = "parse" THEN Failed("failed to parse pip output")
  ELSE Found({ Mod(info.name, "", info.Current, TRUE, info.Latest,
                   info.name \in req.deps,
                   IF info.name \in req.deps THEN "main" ELSE "transitive",
                   FALSE, FALSE) :
               info \in { x \in scn.outdated :
                            /\ ~(~o.All /\ x.name \notin req.deps)
                            /\ ~(o.Filter # "" /\ ~contains(x.name, o.Filter)) } })

\* uv Scanner.GetUpdates.
UvGetUpdates(scn, o) ==
  IF scn.fault = "tool" THEN Failed("failed to run uv pip list --outdated")
  ELSE IF scn.fault = "parse" THEN Failed("failed to parse uv output")
  ELSE Found({ Mod(info.name, "", info.Current, TRUE, info.Latest, TRUE, "main",
                   FALSE, FALSE) :
               info \in { x \in scn.outdated :
                            ~(o.Filter # "" /\ ~contains(x.name, o.Filter)) } })

\* poetry Scanner.readPyprojectToml.
readPyprojectToml(scn) ==
  IF ManifestFails(scn)
  THEN [err |-> "open pyproject.toml", deps |-> {}, devDeps |-> {}]
  ELSE [err |-> "", deps |-> scn.Dependencies, devDeps |-> scn.DevDependencies]

\* poetry Scanner.GetUpdates.  An error of `poetry show --outdated` is taken
\* to mean that nothing is outdated, and a line of fewer than four fields
\* is skipped.
PoetryGetUpdates(scn, o) ==
  LET toml == readPyprojectToml(scn)
      PoetryModule(info) ==
        LET isDev    == info.name \in toml.devDeps
            isDirect == isDev \/ info.name \in toml.deps
        IN  Mod(info.name, "", info.Current, TRUE, info.Latest, isDirect,
                IF isDev THEN "dev" ELSE IF isDirect THEN "main" ELSE "transitive",
                FALSE, FALSE)
  IN
  IF toml.err # "" THEN Failed(toml.err)
  ELSE IF scn.fault \in {"tool", "parse"} THEN Found({})
  ELSE Found({ md \in { PoetryModule(info) : info \in scn.outdated } :
                 /\ ~(~o.All /\ md.DependencyType = "dev")
                 /\ ~(~o.All /\ ~md.Direct)
                 /\ ~(o.Filter # "" /\ ~contains(md.Name, o.Filter)) })

\* mockScanner.GetUpdates: the injected scanner returns its list as it is.
MockGetUpdates(scn, o) == { [err |-> "", modules |-> scn.mods] }

\* Scanner.GetUpdates of the scanner in use.
\* An entry of a DependencyIndex.
DepInfo(name, direct, type) == [name |-> name, Direct |-> direct, Type |-> type]

\* GetDependencyIndex returns an error.
NoIndex(err) == [err |-> err, idx |-> {}]

\* Go Scanner.GetDependencyIndex.
GoGetDependencyIndex(scn) ==
  LET read == ReadRequireIndex(scn) IN
  IF read.err # "" THEN NoIndex(read.err)
  ELSE [err |-> "",
        idx |-> { DepInfo(path, TRUE, "direct") : path \in read.idx.direct }
                \cup { DepInfo(path, FALSE, "indirect") : path \in read.idx.indirect }]

\* GetDependencyIndex of the npm, yarn and pnpm scanners: a later
\* assignment to the same name replaces the earlier one.
NodeGetDependencyIndex(scn) ==
  IF ManifestFails(scn) THEN NoIndex("read package.json")
  ELSE [err |-> "",
        idx |-> { DepInfo(name, TRUE, "dependencies") :
                    name \in scn.Dependencies \ scn.DevDependencies }
                \cup { DepInfo(name, TRUE, "devDependencies") :
                         name \in scn.DevDependencies }]

\* pip Scanner.GetDependencyIndex.
PipGetDependencyIndex(scn) ==
  LET req == readRequirementsTxt(scn) IN
  IF req.err # "" THEN NoIndex(req.err)
  ELSE [err |-> "", idx |-> { DepInfo(name, TRUE, "main") : name \in req.deps }]

\* poetry Scanner.GetDependencyIndex.
PoetryGetDependencyIndex(scn) ==
  LET toml == readPyprojectToml(scn) IN
  IF toml.err # "" THEN NoIndex(toml.err)
  ELSE [err |-> "",
        idx |-> { DepInfo(name, TRUE, "main") :
                    name \in (toml.deps \ {"python"}) \ toml.devDeps }
                \cup { DepInfo(name, TRUE, "dev") : name \in toml.devDeps }]

\* uv Scanner.GetDependencyIndex: the packages `uv pip list` reports as
\* installed, whatever the project declares.
UvGetDependencyIndex(scn) ==
  IF scn.fault = "tool" THEN NoIndex("uv pip list")
  ELSE IF scn.fault = "parse" THEN NoIndex("unmarshal")
  ELSE [err |-> "",
        idx |-> { DepInfo(x.name, TRUE, "main") : x \in scn.outdated }]

\* Scanner.GetDependencyIndex of the adapter.
GetDependencyIndex(scn) ==
  CASE scn.kind = "go"                      -> GoGetDependencyIndex(scn)
    [] scn.kind \in {"npm", "yarn", "pnpm"} -> NodeGetDependencyIndex(scn)
    [] scn.kind = "pip"                     -> PipGetDependencyIndex(scn)
    [] scn.kind = "poetry"                  -> PoetryGetDependencyIndex(scn)
    [] scn.kind = "uv"                      -> UvGetDependencyIndex(scn)
    [] OTHER                                -> [err |-> "", idx |-> {}]

GetUpdates(scn, o) ==
  CASE scn.kind = "npm"    -> NpmGetUpdates(scn, o)
    [] scn.kind = "go"     -> GoGetUpdates(scn, o)
    [] scn.kind = "yarn"   -> YarnGetUpdates(scn, o)
    [] scn.kind = "pnpm"   -> PnpmGetUpdates(scn, o)
    [] scn.kind = "pip"    -> PipGetUpdates(scn, o)
    [] scn.kind = "uv"     -> UvGetUpdates(scn, o)
    [] scn.kind = "poetry" -> PoetryGetUpdates(scn, o)
    [] OTHER               -> MockGetUpdates(scn, o)

\* Scanner.GetDependencyIndex: the names the manifest lists.
IndexNames(scn) ==
  CASE scn.kind = "npm" -> scn.Dependencies \cup scn.DevDependencies
    [] scn.kind = "go"  -> scn.idx.direct \cup scn.idx.indirect
    [] OTHER            -> {}

\* Scanner.GetDependencyIndex: the entry of a listed name.  In the npm
\* adapter the devDependencies loop runs second and overwrites.
IndexEntry(scn, name) ==
  CASE scn.kind = "npm" ->
         IF name \in scn.DevDependencies
         THEN [Direct |-> TRUE, Type |-> "devDependencies"]
         ELSE [Direct |-> TRUE, Type |-> "dependencies"]
    [] OTHER ->
         IF name \in scn.idx.indirect
         THEN [Direct |-> FALSE, Type |-> "indirect"]
         ELSE [Direct |-> TRUE, Type |-> "direct"]

-----------------------------------------------------------------------------
(* Updaters *)

\* One subprocess: the tool, its fixed arguments, and the package specs
\* that follow them.
Cmd(tool, verb, pkgs) == [tool |-> tool, verb |-> verb, pkgs |-> pkgs]

\* fmt.Sprintf("%s<sep>%s", name, m.Update.Version), or the bare name when
\* the module carries no update version.
PkgSpec(mod, name, joiner) ==
  IF mod.HasUpdate /\ mod.UpdateVersion # NoVersion
  THEN << name, joiner, mod.UpdateVersion >>
  ELSE << name >>

\* The specs of a list of modules, in the order of the list.
PkgSpecs(mods, joiner) ==
  [i \in 1..Len(mods) |-> PkgSpec(mods[i], mods[i].Name, joiner)]

\* Go Updater.buildGoGetArgs followed by the two runCmd calls.
GoPlan(mods) ==
  << Cmd("go", <<"get">>,
         [i \in 1..Len(mods) |-> PkgSpec(mods[i], DisplayName(mods[i]), "@")]),
     Cmd("go", <<"mod", "tidy">>, << >>) >>

\* npm, yarn and pnpm: the modules are split by dependency type, and each
\* non-empty half is installed with one command, production first.
NodePlan(tool, install, installDev, mods) ==
  LET deps    == SelectSeq(mods, LAMBDA md : md.DependencyType # "devDependencies")
      devDeps == SelectSeq(mods, LAMBDA md : md.DependencyType = "devDependencies")
  IN  (IF Len(deps) > 0 THEN << Cmd(tool, install, PkgSpecs(deps, "@")) >> ELSE << >>)
      \o
      (IF Len(devDeps) > 0 THEN << Cmd(tool, installDev, PkgSpecs(devDeps, "@")) >>
       ELSE << >>)

\* pnpm Updater.UpdatePackages, as its tests pin it down: pnpm add, then
\* pnpm add --save-dev.
PnpmPlan(mods) == NodePlan("pnpm", <<"add">>, <<"add", "--save-dev">>, mods)

\* pip and uv: one install per module.
PipPlan(tool, verb, mods) ==
  [i \in 1..Len(mods) |-> Cmd(tool, verb, << PkgSpec(mods[i], mods[i].Name, "==") >>)]

\* poetry: one add per module, into the dev group for a dev dependency.
PoetryPlan(mods) ==
  [i \in 1..Len(mods) |->
     Cmd("poetry",
         IF mods[i].DependencyType = "dev" THEN <<"add", "--group", "dev">> ELSE <<"add">>,
         << PkgSpec(mods[i], mods[i].Name, "@") >>)]

\* The ecosystems that have an updater.
UpdaterKinds == { "go", "npm", "yarn", "pnpm", "pip", "poetry", "uv" }

\* The subprocesses UpdatePackages of an updater runs when none fails.
UpdaterPlan(kind, mods) ==
  CASE kind = "go"     -> GoPlan(mods)
    [] kind = "npm"    -> NodePlan("npm", <<"install", "--save">>, <<"install", "--save-dev">>, mods)
    [] kind = "yarn"   -> NodePlan("yarn", <<"add">>, <<"add", "--dev">>, mods)
    [] kind = "pnpm"   -> PnpmPlan(mods)
    [] kind = "pip"    -> PipPlan("pip", <<"install">>, mods)
    [] kind = "uv"     -> PipPlan("uv", <<"pip", "install">>, mods)
    [] kind = "poetry" -> PoetryPlan(mods)

\* Mutant of RunCommands: a failed command does not stop the ones after it.
RunCommandsKeepGoing(plan) ==
  { [ran |-> plan, failedAt |-> f] : f \in 0..Len(plan) }

\* The runCmd calls of a plan: each command may fail, and the first failure
\* returns.  failedAt is the position of the failed command, 0 for none.
RunCommands(plan) ==
  { [ran |-> plan, failedAt |-> 0] }
  \cup { [ran |-> SubSeq(plan, 1, f), failedAt |-> f] : f \in 1..Len(plan) }

\* pip Updater.updateRequirementsTxt: requirements.txt is opened, read and
\* written back; reqFile is its state on disk.
updateRequirementsTxt(reqFile) ==
  CASE reqFile = "missing"  -> [err |-> "open requirements.txt", reads |-> {}, writes |-> {}]
    [] reqFile = "readonly" -> [err |-> "write requirements.txt",
                                reads |-> {"requirements.txt"}, writes |-> {}]
    [] OTHER                -> [err |-> "", reads |-> {"requirements.txt"},
                                writes |-> {"requirements.txt"}]

\* Mutant of NothingToUpdate: the empty list is not special.
NothingToUpdateNever(mods) == FALSE

\* if len(modules) == 0 { return nil }
NothingToUpdate(mods) == Len(mods) = 0

\* Updater.UpdatePackages of the updater of an ecosystem: the outcomes it
\* may have.
UpdatePackages(kind, mods, reqFile) ==
  IF NothingToUpdate(mods)
  THEN { [done |-> TRUE, err |-> "", cmds |-> << >>, failedAt |-> 0,
          reads |-> {}, writes |-> {}] }
  ELSE { IF run.failedAt # 0
         THEN [done |-> TRUE, err |-> "command failed", cmds |-> run.ran,
               failedAt |-> run.failedAt, reads |-> {}, writes |-> {}]
         ELSE IF kind = "pip"
         THEN LET req == updateRequirementsTxt(reqFile) IN
              [done |-> TRUE,
               err |-> IF req.err = "" THEN "" ELSE "failed to update requirements.txt",
               cmds |-> run.ran, failedAt |-> 0, reads |-> req.reads,
               writes |-> req.writes]
         ELSE [done |-> TRUE, err |-> "", cmds |-> run.ran, failedAt |-> 0,
               reads |-> {}, writes |-> {}]
       : run \in RunCommands(UpdaterPlan(kind, mods)) }

-----------------------------------------------------------------------------
(* Inputs *)

V100 == <<1, 0, 0>>
V101 == <<1, 0, 1>>
V110 == <<1, 1, 0>>
V200 == <<2, 0, 0>>

\* Modules an injected scanner returns (the tests' mockScanner).
MockCatalogue ==
  { Mod("a", "a", V100, TRUE, V200, FALSE, "", FALSE, TRUE),
    Mod("c", "", V100, TRUE, V110, TRUE, "dependencies", FALSE, FALSE),
    Mod("e", "", V100, TRUE, V101, TRUE, "devDependencies", FALSE, FALSE),
    Mod("f", "", V100, TRUE, V110, FALSE, "transitive", FALSE, FALSE),
    Mod("g", "", V100, FALSE, NoVersion, TRUE, "dependencies", FALSE, FALSE) }

\* Entries of `npm outdated --json`.
NpmCatalogue ==
  { [name |-> "c", Current |-> V100, Latest |-> V110, Type |-> ""],
    [name |-> "d", Current |-> V100, Latest |-> V110, Type |-> ""],
    [name |-> "e", Current |-> V100, Latest |-> V101, Type |-> "devDependencies"],
    [name |-> "f", Current |-> V100, Latest |-> V200, Type |-> ""] }

\* package.json contents.
PackageJSONs ==
  { [Dependencies |-> {"c", "d"}, DevDependencies |-> {"e"}],
    [Dependencies |-> {"c"}, DevDependencies |-> {"c", "e"}] }

\* Entries of `go list -m -u -json all`.
GoCatalogue ==
  { [Path |-> "a", Version |-> V100, HasUpdate |-> TRUE, UpdateVersion |-> V200,
     UpdateTime |-> NoTime, Indirect |-> FALSE],
    [Path |-> "b", Version |-> V100, HasUpdate |-> TRUE, UpdateVersion |-> V101,
     UpdateTime |-> NoTime, Indirect |-> TRUE],
    [Path |-> "g", Version |-> V100, HasUpdate |-> FALSE, UpdateVersion |-> NoVersion,
     UpdateTime |-> NoTime, Indirect |-> FALSE] }

\* go.mod require blocks: the paths required directly and `// indirect`.
GoMods ==
  { [direct |-> {"a"}, indirect |-> {"b"}],
    [direct |-> {"a", "g"}, indirect |-> {}] }

NoIdx == [direct |-> {}, indirect |-> {}]

Scn(kind, mods, outdated, deps, devDeps, idx, fault) ==
  [kind |-> kind, mods |-> mods, outdated |-> outdated, Dependencies |-> deps,
   DevDependencies |-> devDeps, idx |-> idx, fault |-> fault]

Scanners ==
  { Scn("mock", s, {}, {}, {}, NoIdx, "none") : s \in DistinctSeqs(MockCatalogue, MaxMods) }
  \cup
  { Scn("npm", << >>, od, pj.Dependencies, pj.DevDependencies, NoIdx, "none") :
      od \in { x \in SUBSET NpmCatalogue : Cardinality(x) <= MaxMods },
      pj \in PackageJSONs }
  \cup
  { Scn("go", s, {}, {}, {}, gm, "none") :
      s \in DistinctSeqs(GoCatalogue, MaxMods), gm \in GoMods }
  \cup
  { Scn("npm", << >>, {}, {}, {}, NoIdx, "manifest-bad"),
    Scn("go", << >>, {}, {}, {}, NoIdx, "tool") }

FormatFlags ==
  { << >>, <<"group">>, <<"lines">>, <<"time">>, <<"nope">> }

\* app.RunOptions.
RunOptionsSet ==
  [Upgrade : BOOLEAN, Interactive : BOOLEAN, All : BOOLEAN, FormatFlag : FormatFlags,
   Filter : {""}, Cooldown : {0},
   ShowVulnerabilities : {FALSE}]

-----------------------------------------------------------------------------
(* Package manager detection *)

\* A detection rule.
Detector(manager, files, priority) ==
  [manager |-> manager, files |-> files, priority |-> priority]

\* The rules, in the order of the table.
detectors ==
  << Detector("go", {"go.mod"}, 1),
     Detector("pnpm", {"pnpm-lock.yaml"}, 2),
     Detector("yarn", {"yarn.lock"}, 3),
     Detector("npm", {"package-lock.json"}, 4),
     Detector("poetry", {"poetry.lock", "pyproject.toml"}, 5),
     Detector("uv", {"uv.lock"}, 6),
     Detector("pip", {"requirements.txt"}, 7) >>

\* os.Stat of a file of the directory: it succeeds, fails because the file
\* does not exist, or fails for another reason when the directory cannot
\* be searched.
Stat(dir, file) ==
  IF ~dir.searchable THEN "error"
  ELSE IF file \in dir.files THEN "ok"
  ELSE "not-exist"

\* The inner loop of Detect: no file of the rule is reported as not
\* existing.
allExist(dir, d) == \A file \in d.files : Stat(dir, file) # "not-exist"

\* detector.Detect.
Detect(dir) ==
  LET results == SelectSeq(detectors, LAMBDA d : allExist(dir, d)) IN
  IF Len(results) = 0
  THEN [err |-> "no supported package manager detected", managers |-> << >>]
  ELSE [err |-> "", managers |-> [i \in 1..Len(results) |-> results[i].manager]]

\* detector.DetectSingle.
DetectSingle(dir) ==
  LET res == Detect(dir) IN
  IF res.err # "" THEN res
  ELSE [err |-> "", managers |-> << res.managers[1] >>]

-----------------------------------------------------------------------------
(* Vulnerability enrichment *)

\* The advisory service: the lookups <<package, version>> that fail.
NoOutage == {}

\* What the advisory service knows about a version of a package.
Advisories(name, version) ==
  IF version = V100 THEN VulnInfo(1, 0, 1, 0, 2) ELSE VulnInfo(0, 1, 0, 0, 1)

\* vuln.Client.CheckModule: the counts and whether the lookup failed; a
\* failed lookup returns an error next to whatever it had counted.
CheckModule(client, name, version) ==
  [failed |-> <<name, version>> \in client, counts |-> Advisories(name, version)]

\* Mutant of snapshot: the counts are stored whether or not the lookup
\* failed.
snapshotUnchecked(old, res) == res.counts

\* checkVulnerabilities: `if counts, err := ...; err == nil { ... = counts }`.
snapshot(old, res) == IF res.failed THEN old ELSE res.counts

\* checkVulnerabilities: both versions of every module with an update are
\* looked up, in the order of the list; the list is changed in place.
checkVulnerabilities(modules, client) ==
  [i \in 1..Len(modules) |->
     IF ~modules[i].HasUpdate THEN modules[i]
     ELSE LET pkgName == DisplayName(modules[i]) IN
          [modules[i] EXCEPT
             !.VulnCurrent = snapshot(@, CheckModule(client, pkgName, modules[i].Version)),
             !.VulnUpdate  = snapshot(@, CheckModule(client, pkgName,
                                                     modules[i].UpdateVersion))]]

-----------------------------------------------------------------------------
(* Rendering *)

Banner(text) == [kind |-> "banner", text |-> text]

\* The rows written for a bucket: one per module, up to the first module
\* whose Update is nil, where m.Update.Version panics.
RECURSIVE RowsFrom(_, _)
RowsFrom(group, i) ==
  IF i > Len(group) THEN [lines |-> << >>, panic |-> FALSE]
  ELSE IF ~group[i].HasUpdate THEN [lines |-> << >>, panic |-> TRUE]
  ELSE LET rest == RowsFrom(group, i + 1)
       IN  [lines |-> << [kind |-> "row", text |-> DisplayName(group[i])] >> \o rest.lines,
            panic |-> rest.panic]

\* printSimpleOutput.
printSimpleOutput(group) == RowsFrom(group, 1)

\* printGroupedOutput: the labels in ascending sort key, under each label
\* its modules in the order of the bucket.
RECURSIVE GroupedFrom(_, _)
GroupedFrom(group, key) ==
  IF key > 3 THEN [lines |-> << >>, panic |-> FALSE]
  ELSE LET members == SelectSeq(group, LAMBDA md : GroupSortKey(md) = key)
           rows    == RowsFrom(members, 1)
           rest    == GroupedFrom(group, key + 1)
       IN  IF Len(members) = 0 THEN rest
           ELSE IF rows.panic
           THEN [lines |-> << [kind |-> "label", text |-> GroupLabel(members[1])] >>
                           \o rows.lines,
                 panic |-> TRUE]
           ELSE [lines |-> << [kind |-> "label", text |-> GroupLabel(members[1])] >>
                           \o rows.lines \o rest.lines,
                 panic |-> rest.panic]

printGroupedOutput(group) == GroupedFrom(group, 0)

\* printGroup: nothing for an empty bucket, else the title and the rows.
printGroup(title, group, grouped) ==
  IF Len(group) = 0 THEN [lines |-> << >>, panic |-> FALSE]
  ELSE LET body == IF grouped THEN printGroupedOutput(group)
                   ELSE printSimpleOutput(group)
       IN  [lines |-> << [kind |-> "title", text |-> title] >> \o body.lines,
            panic |-> body.panic]

\* printLinesFormat: name@version lines, modules without an update skipped.
printLinesFormat(direct, indirect, transitive, includeAll) ==
  LET all == direct \o indirect \o (IF includeAll THEN transitive ELSE << >>)
      upd == SelectSeq(all, LAMBDA md : md.HasUpdate)
  IN  [i \in 1..Len(upd) |-> [kind |-> "line", text |-> DisplayName(upd[i])]]

\* The three printGroup calls of Run, stopping at a panic.
RenderGroups(b, grouped, includeAll) ==
  LET d == printGroup("direct", b.direct, grouped)
      n == printGroup("indirect", b.indirect, grouped)
      t == IF includeAll THEN printGroup("transitive", b.transitive, grouped)
           ELSE [lines |-> << >>, panic |-> FALSE]
  IN  IF d.panic THEN d
      ELSE IF n.panic THEN [lines |-> d.lines \o n.lines, panic |-> TRUE]
      ELSE [lines |-> d.lines \o n.lines \o t.lines, panic |-> t.panic]

-----------------------------------------------------------------------------
(* The picker's model *)

\* The comparison initialModel passes to sort.Slice.
SortLess(x, y) ==
  IF GroupSortKey(x) # GroupSortKey(y) THEN GroupSortKey(x) < GroupSortKey(y)
  ELSE StrLess(x.Path, y.Path)

\* sort.Slice is not stable: every ordering that is sorted under SortLess.
SortSlice(group) ==
  { p \in SeqPerms(group) :
      \A i, j \in 1..Len(p) : i < j => ~SortLess(p[j], p[i]) }

\* initialModel: the models it may return.
initialModel(direct, indirect, transitive, formatGroup, hasUpdater) ==
  { [choices      |-> d \o n \o t,
     selected     |-> {},
     cursor       |-> 0,
     quitting     |-> FALSE,
     directEnd    |-> Len(d),
     indirectEnd  |-> Len(d) + Len(n),
     transitiveOn |-> Len(t) > 0,
     FormatGroup  |-> formatGroup,
     Updater      |-> hasUpdater] :
    d \in (IF formatGroup THEN SortSlice(direct) ELSE {direct}),
    n \in (IF formatGroup THEN SortSlice(indirect) ELSE {indirect}),
    t \in (IF formatGroup THEN SortSlice(transitive) ELSE {transitive}) }

NoModel ==
  [choices |-> << >>, selected |-> {}, cursor |-> 0, quitting |-> FALSE,
   directEnd |-> 0, indirectEnd |-> 0, transitiveOn |-> FALSE,
   FormatGroup |-> FALSE, Updater |-> FALSE]

\* model.View dereferences choice.Update.Version for every row.
ViewPanics(mdl) ==
  ~mdl.quitting /\ \E i \in 1..Len(mdl.choices) : ~mdl.choices[i].HasUpdate

\* Mutant of CursorInRange: the upper bound is not checked.
CursorInRangeNoUpper(mdl) == mdl.cursor >= 0

\* The bounds check of the toggle branch of model.Update (cursor is 0-based).
CursorInRange(mdl) == mdl.cursor >= 0 /\ mdl.cursor < Len(mdl.choices)

\* Mutant of IndexInRange: the indices are taken to start at 1.
IndexInRangeFromOne(mdl, i) == i > 0 /\ i < Len(mdl.choices)

\* The bounds check of the selection collection (indices are 0-based).
IndexInRange(mdl, i) == i >= 0 /\ i < Len(mdl.choices)

\* Mutant of Toggle: the cursor's index is added and never removed.
ToggleAddOnly(mdl) ==
  IF CursorInRange(mdl) THEN [mdl EXCEPT !.selected = @ \cup {mdl.cursor}] ELSE mdl

\* The toggle branch of model.Update: flip the cursor's membership.
Toggle(mdl) ==
  IF CursorInRange(mdl)
  THEN IF mdl.cursor \in mdl.selected
       THEN [mdl EXCEPT !.selected = @ \ {mdl.cursor}]
       ELSE [mdl EXCEPT !.selected = @ \cup {mdl.cursor}]
  ELSE mdl

\* The "up"/"k" branch of model.Update.
MoveUp(mdl) ==
  IF mdl.cursor > 0 THEN [mdl EXCEPT !.cursor = @ - 1] ELSE mdl

\* Mutant of MoveDown: the cursor moves on past the last choice.
MoveDownUnguarded(mdl) == [mdl EXCEPT !.cursor = @ + 1]

\* The "down"/"j" branch of model.Update.
MoveDown(mdl) ==
  IF mdl.cursor < Len(mdl.choices) - 1 THEN [mdl EXCEPT !.cursor = @ + 1] ELSE mdl

\* Mutant of Abort: the cursor is put back on the first choice.
AbortResetting(mdl) == [mdl EXCEPT !.quitting = TRUE, !.cursor = 0]

\* The "ctrl+c"/"q" branch of model.Update.
Abort(mdl) == [mdl EXCEPT !.quitting = TRUE]

AbortKeys  == {"ctrl+c", "q"}
UpKeys     == {"up", "k"}
DownKeys   == {"down", "j"}
ToggleKeys == {" ", "space"}
CommitKeys == {"enter"}

\* Messages delivered to the picker: the bound keys, an unbound key and a
\* message that is no key event.
Msgs == {"q", "ctrl+c", "up", "k", "down", "j", " ", "space", "enter", "x", "WindowSizeMsg"}

\* The event a message is bound to in model.Update.
Binding(msg) ==
  CASE msg \in AbortKeys  -> "abort"
    [] msg \in UpKeys     -> "move-up"
    [] msg \in DownKeys   -> "move-down"
    [] msg \in ToggleKeys -> "toggle"
    [] msg \in CommitKeys -> "commit"
    [] OTHER              -> "none"

\* model.Update: the model it returns and whether it returns tea.Quit.
Update(mdl, msg) ==
  CASE msg \in AbortKeys  -> [model |-> Abort(mdl), quit |-> TRUE]
    [] msg \in UpKeys     -> [model |-> MoveUp(mdl), quit |-> FALSE]
    [] msg \in DownKeys   -> [model |-> MoveDown(mdl), quit |-> FALSE]
    [] msg \in ToggleKeys -> [model |-> Toggle(mdl), quit |-> FALSE]
    [] msg \in CommitKeys -> [model |-> mdl, quit |-> TRUE]
    [] OTHER              -> [model |-> mdl, quit |-> FALSE]

\* The loop of model.View from the choice at index i (0-based): the
\* section headings that fall on i (named as the non-interactive renderer
\* names them), the heading of the version-delta group
\* when it differs from the previous one, and the row.
RECURSIVE ViewFrom(_, _, _)
ViewFrom(mdl, i, prevGroup) ==
  IF i >= Len(mdl.choices) THEN << >>
  ELSE LET choice   == mdl.choices[i + 1]
           headings ==
             (IF i = 0 THEN << [kind |-> "title", text |-> "direct"] >> ELSE << >>)
             \o (IF i = mdl.directEnd /\ i < Len(mdl.choices)
                 THEN << [kind |-> "title", text |-> "indirect"] >> ELSE << >>)
             \o (IF mdl.transitiveOn /\ i = mdl.indirectEnd /\ i < Len(mdl.choices)
                 THEN << [kind |-> "title", text |-> "transitive"] >> ELSE << >>)
           prev     == IF Len(headings) > 0 THEN "" ELSE prevGroup
           g        == GroupLabel(choice)
           label    == IF mdl.FormatGroup /\ g # prev
                       THEN << [kind |-> "label", text |-> g] >> ELSE << >>
           next     == IF mdl.FormatGroup THEN g ELSE prev
       IN  headings \o label
           \o << [kind |-> "row", text |-> DisplayName(choice)] >>
           \o ViewFrom(mdl, i + 1, next)

\* model.View.
View(mdl) ==
  IF mdl.quitting THEN << [kind |-> "banner", text |-> "Bye!"] >>
  ELSE ViewFrom(mdl, 0, "")

\* StartInteractiveGroupedWithOptions: the selected indices it keeps.
CollectSelection(mdl) == { i \in mdl.selected : IndexInRange(mdl, i) }

\* Mutant of Committed: the quitting flag is not looked at.
CommittedAlways(mdl) == TRUE

\* StartInteractiveGroupedWithOptions: the final model is acted on unless
\* it is quitting.
Committed(mdl) == ~mdl.quitting

\* Mutant of UpgradeRequested: the update runs on every run.
UpgradeAlways(o) == TRUE

\* Run: the update runs only under the upgrade flag.
UpgradeRequested(o) == o.Upgrade

\* Run: the list handed to UpdatePackages in the non-interactive upgrade.
PackagesToUpdate(b, includeAll) ==
  b.direct \o b.indirect \o (IF includeAll THEN b.transitive ELSE << >>)

-----------------------------------------------------------------------------
(* State *)

VARIABLES
  entry,          \* "run": app.Run; "tui": StartInteractiveGrouped called directly
  opts,           \* app.RunOptions
  deps,           \* app.Deps: the scanner, and whether an updater is injected
  phase,          \* "start", "picker", "done", "crashed"
  runErr,         \* the error Run returned or the program exited with, "" for none
  modules,        \* the list GetUpdates returned
  buckets,        \* the three lists of groupModules
  out,            \* what was written, in order
  m,              \* the picker's model
  quitCmd,        \* model.Update has returned tea.Quit
  tampered,       \* cursor or selected was set from outside model.Update
  lastEvent,      \* history: the binding of the message handled last, "" when not traced
  updCalls,       \* the lists passed to UpdatePackages, in call order
  updaterCreated, \* number of factory.CreateUpdater calls
  call,           \* entry "unit": the function called on its own, with its arguments
  result          \* entry "unit": what the call returned and did

vars ==
  << entry, opts, deps, phase, runErr, modules, buckets, out, m, quitCmd,
     tampered, lastEvent, updCalls, updaterCreated, call, result >>

\* No function is called on its own.
NoCall == [op |-> ""]

\* Nothing has returned.
NoResult == [done |-> FALSE]

Fresh ==
  /\ phase = "start"
  /\ runErr = ""
  /\ modules = << >>
  /\ buckets = EmptyBuckets
  /\ out = << >>
  /\ m = NoModel
  /\ quitCmd = FALSE
  /\ tampered = FALSE
  /\ lastEvent = ""
  /\ updCalls = << >>
  /\ updaterCreated = 0
  /\ result = NoResult

\* Run is entered from the command line with a created scanner and no
\* updater, or from a test with an injected scanner and updater.
Init ==
  /\ entry = "run"
  /\ call = NoCall
  /\ opts \in RunOptionsSet
  /\ deps \in [Scanner : Scanners, Updater : BOOLEAN, Vuln : {NoOutage}]
  /\ deps.Updater = (deps.Scanner.kind = "mock")
  /\ Fresh

\* The picker is started directly on three lists, with or without an updater.
PickerInit ==
  /\ entry = "tui"
  /\ call = NoCall
  /\ opts \in RunOptionsSet
  /\ opts.Interactive /\ ~opts.Upgrade /\ ~opts.All
  /\ opts.FormatFlag \in { << >>, <<"group">> }
  /\ deps \in [Scanner : Scanners, Updater : BOOLEAN, Vuln : {NoOutage}]
  /\ deps.Scanner.kind = "mock"
  /\ Fresh

-----------------------------------------------------------------------------
(* Actions *)

PickerIdle == UNCHANGED << m, quitCmd, tampered, lastEvent >>

\* Run returns err (nil when err = "") having written o.
Return(err, o, mods, b, calls, created) ==
  /\ phase' = "done"
  /\ runErr' = err
  /\ out' = o
  /\ modules' = mods
  /\ buckets' = b
  /\ updCalls' = calls
  /\ updaterCreated' = created
  /\ PickerIdle

\* A nil dereference while rendering: the process panics.
Panic(o, mods, b) ==
  /\ phase' = "crashed"
  /\ runErr' = "panic"
  /\ out' = o
  /\ modules' = mods
  /\ buckets' = b
  /\ UNCHANGED << updCalls, updaterCreated >>
  /\ PickerIdle

\* runProgram starts on one of the models initialModel may return; its
\* first View panics on a choice without an update.
StartPicker(o, mods, b, formatGroup, hasUpdater, created) ==
  \E mdl \in initialModel(b.direct, b.indirect, b.transitive, formatGroup, hasUpdater) :
    /\ phase' = IF ViewPanics(mdl) THEN "crashed" ELSE "picker"
    /\ runErr' = IF ViewPanics(mdl) THEN "panic" ELSE ""
    /\ m' = mdl
    /\ out' = o
    /\ modules' = mods
    /\ buckets' = b
    /\ updaterCreated' = created
    /\ UNCHANGED << quitCmd, tampered, lastEvent, updCalls >>

\* app.Run, up to its return or to the start of the picker.
Run ==
  /\ entry = "run"
  /\ phase = "start"
  /\ UNCHANGED << call, result, entry, opts, deps >>
  /\ LET formats == ParseFlag(opts.FormatFlag)
         scanning == IF formats.Lines THEN << >>
                     ELSE << Banner("Using package manager"), Banner("Checking for updates...") >>
         banner  == IF opts.ShowVulnerabilities /\ ~formats.Lines
                    THEN Append(scanning, Banner("Checking vulnerabilities..."))
                    ELSE scanning
         created == IF deps.Updater THEN updaterCreated ELSE updaterCreated + 1
     IN
     IF formats.err
     THEN Return("invalid format", << >>, << >>, EmptyBuckets, updCalls, updaterCreated)
     ELSE \E res \in GetUpdates(deps.Scanner, opts) :
       LET mods == IF opts.ShowVulnerabilities
                   THEN checkVulnerabilities(res.modules, deps.Vuln)
                   ELSE res.modules
           b    == groupModules(mods)
       IN
       IF res.err # ""
       THEN Return(res.err, scanning, << >>, EmptyBuckets, updCalls, updaterCreated)
       ELSE IF Len(res.modules) = 0
       THEN Return("", IF formats.Lines THEN scanning
                       ELSE Append(scanning, Banner("All dependencies match")),
                   res.modules, EmptyBuckets, updCalls, updaterCreated)
       ELSE IF opts.Interactive
       THEN StartPicker(banner, mods, b, formats.Group, TRUE, created)
       ELSE IF formats.Lines
       THEN Return("", banner \o printLinesFormat(b.direct, b.indirect, b.transitive, opts.All),
                   mods, b, updCalls, updaterCreated)
       ELSE
         LET render == RenderGroups(b, formats.Group, opts.All)
             shown  == Append(banner, Banner("Available updates:")) \o render.lines
         IN
         IF render.panic THEN Panic(shown, mods, b)
         ELSE IF UpgradeRequested(opts)
         THEN \E ok \in BOOLEAN :
                Return(IF ok THEN "" ELSE "update failed",
                       IF ok THEN shown \o << Banner("Upgrading..."), Banner("Done.") >>
                       ELSE Append(shown, Banner("Upgrading...")),
                       mods, b,
                       Append(updCalls, PackagesToUpdate(b, opts.All)), created)
         ELSE Return("", Append(shown, Banner("Run with -u to upgrade")),
                     mods, b, updCalls, updaterCreated)

\* StartInteractiveGroupedWithOptions called directly with three lists.
StartInteractiveGrouped ==
  /\ entry = "tui"
  /\ phase = "start"
  /\ UNCHANGED << call, result, entry, opts, deps >>
  /\ LET b == groupModules(deps.Scanner.mods) IN
     StartPicker(<< >>, deps.Scanner.mods, b, ParseFlag(opts.FormatFlag).Group,
                 deps.Updater, updaterCreated)

\* A test sets the cursor of a fresh model to an invalid position.
ForceCursor ==
  /\ phase = "picker" /\ ~tampered /\ ~quitCmd
  /\ m.cursor = 0 /\ m.selected = {}
  /\ \E c \in {-1, ForcedIndex} : m' = [m EXCEPT !.cursor = c]
  /\ tampered' = TRUE
  /\ UNCHANGED << call, result, entry, opts, deps, phase, runErr, modules, buckets, out, quitCmd,
                  lastEvent, updCalls, updaterCreated >>

\* A test adds an index that is out of bounds to the selection of a fresh model.
ForceSelected ==
  /\ phase = "picker" /\ ~tampered /\ ~quitCmd
  /\ m.cursor = 0 /\ m.selected = {}
  /\ \E i \in {-1, ForcedIndex} : m' = [m EXCEPT !.selected = @ \cup {i}]
  /\ tampered' = TRUE
  /\ UNCHANGED << call, result, entry, opts, deps, phase, runErr, modules, buckets, out, quitCmd,
                  lastEvent, updCalls, updaterCreated >>

\* The event loop hands one message to model.Update.
Deliver(msg) ==
  /\ phase = "picker"
  /\ m' = Update(m, msg).model
  /\ quitCmd' = (quitCmd \/ Update(m, msg).quit)
  /\ UNCHANGED << call, result, entry, opts, deps, phase, runErr, modules, buckets, out, tampered,
                  updCalls, updaterCreated >>

\* A message is handled.
Event(msg) == Deliver(msg) /\ UNCHANGED lastEvent

\* A message is handled and its binding is recorded.
TracedEvent(msg) == Deliver(msg) /\ lastEvent' = Binding(msg)

\* runProgram returns an error: the process exits with status 1.
ProgramError ==
  /\ phase = "picker"
  /\ phase' = "done"
  /\ runErr' = "Error running program"
  /\ UNCHANGED << call, result, entry, opts, deps, modules, buckets, out, m, quitCmd, tampered,
                  lastEvent, updCalls, updaterCreated >>

\* runProgram returns the final model: the rest of
\* StartInteractiveGroupedWithOptions.  The selected map is iterated in any
\* order.
ProgramExit ==
  /\ phase = "picker"
  /\ quitCmd
  /\ phase' = "done"
  /\ runErr' = ""
  /\ UNCHANGED << call, result, entry, opts, deps, modules, buckets, m, quitCmd, tampered,
                  lastEvent, updaterCreated >>
  /\ IF ~Committed(m)
     THEN UNCHANGED << out, updCalls >>
     ELSE LET sel == CollectSelection(m) IN
          IF sel = {}
          THEN /\ out' = Append(out, Banner("No packages selected."))
               /\ UNCHANGED updCalls
          ELSE IF ~m.Updater
          THEN /\ out' = Append(out, Banner("Error: no updater configured"))
               /\ UNCHANGED updCalls
          ELSE \E order \in SetToSeqs(sel), ok \in BOOLEAN :
                 /\ updCalls' = Append(updCalls,
                                  [k \in 1..Len(order) |-> m.choices[order[k] + 1]])
                 /\ out' = Append(out, IF ok THEN Banner("Updates complete!")
                                       ELSE Banner("Error updating"))

Next ==
  \/ Run
  \/ \E msg \in Msgs : Event(msg)
  \/ ProgramError
  \/ ProgramExit

Spec == Init /\ [][Next]_vars

PickerNext ==
  \/ StartInteractiveGrouped
  \/ ForceCursor
  \/ ForceSelected
  \/ \E msg \in Msgs : TracedEvent(msg)
  \/ ProgramError
  \/ ProgramExit

PickerSpec == PickerInit /\ [][PickerNext]_vars

\* The status the process exits with: rootCmd.Run calls os.Exit(1) when
\* app.Run returns an error, as the picker does when runProgram fails; a
\* panic ends the process with status 2.
ExitCode ==
  IF phase = "crashed" THEN 2
  ELSE IF runErr # "" THEN 1
  ELSE 0

-----------------------------------------------------------------------------
(* Runs with a cooldown *)

\* A direct dependency with an update published at ts.
Timed(name, ts) ==
  Published(Mod(name, "", V100, TRUE, V110, TRUE, "dependencies", FALSE, FALSE), ts)

\* Modules an injected scanner returns with a publish time: half a day and
\* three days before the injected clock.
TimedMockCatalogue ==
  { Timed("c", RFC3339(InjectedNow - 1)),
    Timed("d", RFC3339(InjectedNow - 3 * Day)) }

\* Entries of `go list -m -u -json all` with the Time of the update.
TimedGoCatalogue ==
  { [Path |-> "a", Version |-> V100, HasUpdate |-> TRUE, UpdateVersion |-> V200,
     UpdateTime |-> RFC3339(InjectedNow - 1), Indirect |-> FALSE],
    [Path |-> "b", Version |-> V100, HasUpdate |-> TRUE, UpdateVersion |-> V101,
     UpdateTime |-> RFC3339(InjectedNow - 3 * Day), Indirect |-> TRUE] }

CooldownScanners ==
  { Scn("mock", s, {}, {}, {}, NoIdx, "none") :
      s \in DistinctSeqs(TimedMockCatalogue, MaxMods) }
  \cup
  { Scn("go", s, {}, {}, {}, [direct |-> {"a"}, indirect |-> {"b"}], "none") :
      s \in DistinctSeqs(TimedGoCatalogue, MaxMods) }

\* Run is entered with --cooldown 0 or --cooldown 2.
CooldownInit ==
  /\ entry = "run"
  /\ call = NoCall
  /\ opts \in [Upgrade : BOOLEAN, Interactive : BOOLEAN, All : {FALSE},
               FormatFlag : { << >>, <<"lines">> }, Filter : {""}, Cooldown : {0, 2},
   ShowVulnerabilities : {FALSE}]
  /\ deps \in [Scanner : CooldownScanners, Updater : BOOLEAN, Vuln : {NoOutage}]
  /\ deps.Updater = (deps.Scanner.kind = "mock")
  /\ Fresh

CooldownSpec == CooldownInit /\ [][Next]_vars

-----------------------------------------------------------------------------
(* Runs whose scan may fail *)

\* What can go wrong in a scan: the manifest is not there, the manifest is
\* unreadable, the subprocess fails, its output does not parse.
Faults == { "none", "manifest-missing", "manifest-bad", "tool", "parse" }

\* The adapters factory.CreateScanner can return.
ScannerKinds == { "go", "npm", "yarn", "pnpm", "pip", "uv", "poetry" }

\* A project of each ecosystem with outdated packages c (declared), e
\* (declared for development) and f (not declared).
Project(kind, fault) ==
  IF kind = "go"
  THEN Scn("go",
           << [Path |-> "a", Version |-> V100, HasUpdate |-> TRUE, UpdateVersion |-> V200,
               UpdateTime |-> NoTime, Indirect |-> FALSE],
              [Path |-> "b", Version |-> V100, HasUpdate |-> TRUE, UpdateVersion |-> V101,
               UpdateTime |-> NoTime, Indirect |-> TRUE] >>,
           {}, {}, {}, [direct |-> {"a"}, indirect |-> {"b"}], fault)
  ELSE Scn(kind, << >>,
           { x \in NpmCatalogue : x.name \in {"c", "e", "f"} },
           {"c", "d"}, {"e"}, NoIdx, fault)

FaultyScanners == { Project(kind, fault) : kind \in ScannerKinds, fault \in Faults }

\* Run is entered from the command line in a project of any ecosystem.
ScanInit ==
  /\ entry = "run"
  /\ call = NoCall
  /\ opts \in [Upgrade : BOOLEAN, Interactive : BOOLEAN, All : BOOLEAN,
               FormatFlag : { << >>, <<"lines">> }, Filter : {""}, Cooldown : {0},
   ShowVulnerabilities : {FALSE}]
  /\ deps \in [Scanner : FaultyScanners, Updater : {FALSE}, Vuln : {NoOutage}]
  /\ Fresh

ScanSpec == ScanInit /\ [][Next]_vars

-----------------------------------------------------------------------------
(* Runs with vulnerability enrichment *)

\* Modules of a scan: one named, one known by its path only, one without
\* an update.
VulnCatalogue ==
  { Mod("c", "", V100, TRUE, V110, TRUE, "dependencies", FALSE, FALSE),
    Mod("", "a", V100, TRUE, V200, FALSE, "", FALSE, TRUE),
    Mod("g", "", V100, FALSE, NoVersion, TRUE, "dependencies", FALSE, FALSE) }

\* The lookups that may fail.
Lookups == { <<"c", V100>>, <<"c", V110>>, <<"a", V200>> }

\* Run is entered with -v; any of the lookups may fail.
VulnInit ==
  /\ entry = "run"
  /\ call = NoCall
  /\ opts \in [Upgrade : BOOLEAN, Interactive : BOOLEAN, All : {TRUE},
               FormatFlag : { << >>, <<"lines">> }, Filter : {""}, Cooldown : {0},
               ShowVulnerabilities : {TRUE}]
  /\ deps \in [Scanner : { Scn("mock", s, {}, {}, {}, NoIdx, "none") :
                             s \in DistinctSeqs(VulnCatalogue, MaxMods) },
               Updater : {TRUE}, Vuln : SUBSET Lookups]
  /\ Fresh

VulnSpec == VulnInit /\ [][Next]_vars

-----------------------------------------------------------------------------
(* Functions called on their own *)

\* Modules handed to FilterModules: updates published exactly two days,
\* a day and a half and half a day before the injected clock, one published
\* after it, updates without a usable timestamp, and a module without update.
FilterCatalogue ==
  { Timed("react", RFC3339(InjectedNow - 2 * Day)),
    Timed("react-dom", RFC3339(InjectedNow - 2 * Day + 1)),
    Timed("vue", RFC3339(InjectedNow - 1)),
    Timed("vuex", RFC3339(InjectedNow + 1)),
    Timed("preact", BadTime),
    Published(Mod("", "react-is", V100, TRUE, V110, FALSE, "", FALSE, TRUE), NoTime),
    Mod("redux", "", V100, FALSE, NoVersion, TRUE, "dependencies", FALSE, FALSE) }

\* Values of --filter.
Filters == { "", "react", "^react", "vue$", "re(" }

\* Values of --cooldown.
CooldownDaysSet == { -1, 0, 1, 2 }

FilterCalls ==
  [op : {"FilterModules"}, modules : DistinctSeqs(FilterCatalogue, MaxMods),
   filter : Filters, cooldownDays : CooldownDaysSet, now : {InjectedNow}]

\* Modules handed to an updater.
UpdaterCatalogue ==
  { Mod("c", "", V100, TRUE, V110, TRUE, "dependencies", FALSE, FALSE),
    Mod("e", "", V100, TRUE, V101, TRUE, "devDependencies", FALSE, FALSE),
    Mod("d", "", V100, TRUE, V200, TRUE, "dev", FALSE, FALSE),
    Mod("", "a", V100, TRUE, V200, FALSE, "", FALSE, TRUE),
    Mod("g", "", V100, FALSE, NoVersion, TRUE, "dependencies", FALSE, FALSE) }

\* requirements.txt matters to the pip updater only.
UpdateCalls ==
  { c \in [op : {"UpdatePackages"}, kind : UpdaterKinds,
           modules : DistinctSeqs(UpdaterCatalogue, MaxMods),
           reqFile : {"missing", "present", "readonly"}] :
      c.kind # "pip" => c.reqFile = "present" }

\* GetDependencyIndex of an adapter, on each project.
IndexCalls == [op : {"GetDependencyIndex"}, scn : FaultyScanners]

\* GetUpdates of an adapter, on each project, with and without --all and
\* with each --filter.
ScanCalls ==
  [op : {"GetUpdates"}, scn : FaultyScanners,
   o : [Upgrade : {FALSE}, Interactive : {FALSE}, All : BOOLEAN,
        FormatFlag : { << >> }, Filter : Filters, Cooldown : {0},
   ShowVulnerabilities : {FALSE}]]

\* The files detection looks for.
MarkerFiles ==
  { "go.mod", "pnpm-lock.yaml", "yarn.lock", "package-lock.json", "poetry.lock",
    "pyproject.toml", "uv.lock", "requirements.txt" }

\* Directories: any set of the marker files, in a directory that can or
\* cannot be searched.
Dirs == [files : SUBSET MarkerFiles, searchable : BOOLEAN]

DetectCalls == [op : {"Detect", "DetectSingle"}, dir : Dirs]

\* Lists handed to groupModules: up to MaxList modules, repeats allowed.
GroupCalls ==
  [op : {"groupModules"},
   modules : UNION { [1..n -> MockCatalogue] : n \in 0..MaxList }]

\* The calls made on their own.
UnitCalls ==
  FilterCalls \cup UpdateCalls \cup IndexCalls \cup ScanCalls \cup DetectCalls
  \cup GroupCalls

\* A function is called with nothing else running.
UnitInit ==
  /\ entry = "unit"
  /\ call \in UnitCalls
  /\ opts = [Upgrade |-> FALSE, Interactive |-> FALSE, All |-> FALSE,
             FormatFlag |-> << >>, Filter |-> "", Cooldown |-> 0,
             ShowVulnerabilities |-> FALSE]
  /\ deps = [Scanner |-> Scn("mock", << >>, {}, {}, {}, NoIdx, "none"), Updater |-> FALSE,
             Vuln |-> NoOutage]
  /\ Fresh

\* The call returns res.
Returns(res) ==
  /\ entry = "unit"
  /\ ~result.done
  /\ result' = res
  /\ UNCHANGED << call, entry, opts, deps, phase, runErr, modules, buckets, out, m,
                  quitCmd, tampered, lastEvent, updCalls, updaterCreated >>

\* scanner.FilterModules is called.
CallFilterModules ==
  /\ call.op = "FilterModules"
  /\ Returns([done |-> TRUE,
              modules |-> FilterModules(call.modules, call.filter,
                                        call.cooldownDays, call.now)])

\* UpdatePackages of an updater is called.
CallUpdatePackages ==
  /\ call.op = "UpdatePackages"
  /\ \E res \in UpdatePackages(call.kind, call.modules, call.reqFile) : Returns(res)

\* GetDependencyIndex of a scanner is called.
CallGetDependencyIndex ==
  /\ call.op = "GetDependencyIndex"
  /\ LET res == GetDependencyIndex(call.scn) IN
     Returns([done |-> TRUE, err |-> res.err, idx |-> res.idx])

\* GetUpdates of a scanner is called.
CallGetUpdates ==
  /\ call.op = "GetUpdates"
  /\ \E res \in GetUpdates(call.scn, call.o) :
       Returns([done |-> TRUE, err |-> res.err, modules |-> res.modules,
                cmds |-> IF call.scn.kind = "go" THEN res.cmds ELSE << >>])

\* detector.Detect is called.
CallDetect ==
  /\ call.op = "Detect"
  /\ LET res == Detect(call.dir) IN
     Returns([done |-> TRUE, err |-> res.err, managers |-> res.managers])

\* detector.DetectSingle is called.
CallDetectSingle ==
  /\ call.op = "DetectSingle"
  /\ LET res == DetectSingle(call.dir) IN
     Returns([done |-> TRUE, err |-> res.err, managers |-> res.managers])

\* groupModules is called; the caller's list is read, never assigned to.
CallGroupModules ==
  /\ call.op = "groupModules"
  /\ LET g == groupModules(call.modules) IN
     Returns([done |-> TRUE, direct |-> g.direct, indirect |-> g.indirect,
              transitive |-> g.transitive, modules |-> call.modules])

UnitNext ==
  \/ CallGroupModules
  \/ CallDetect
  \/ CallDetectSingle
  \/ CallFilterModules
  \/ CallUpdatePackages
  \/ CallGetDependencyIndex
  \/ CallGetUpdates

UnitSpec == UnitInit /\ [][UnitNext]_vars

-----------------------------------------------------------------------------
(* Properties *)

AllBuckets == Range(buckets.direct) \cup Range(buckets.indirect) \cup Range(buckets.transitive)

\* The names written as rows or lines.
ShownNames == { out[i].text : i \in { j \in 1..Len(out) : out[j].kind \in {"row", "line"} } }

\* The modules passed to UpdatePackages in any call.
UpdatedModules == UNION { Range(updCalls[c]) : c \in 1..Len(updCalls) }

\* C1: a toggle event handled while the cursor is outside 0..len(choices)-1
\* (an empty choices list, a forced cursor) leaves selected and cursor as
\* they were and raises no error.
C1_ToggleOutOfRangeIsNoOp ==
  [][ \A k \in ToggleKeys :
        (Deliver(k) /\ ~(0 <= m.cursor /\ m.cursor <= Len(m.choices) - 1))
          => /\ m'.selected = m.selected
             /\ m'.cursor = m.cursor
             /\ phase' = "picker"
             /\ runErr' = "" ]_vars

\* A toggle was handled last, with the cursor forced far out of a
\* non-empty choices list.
C1_Witness ==
  /\ phase = "picker"
  /\ lastEvent = "toggle"
  /\ Len(m.choices) > 0
  /\ m.cursor = ForcedIndex
  /\ m.selected = {}

\* C2: after the picker ends with a commit, UpdatePackages is called at most
\* once, with exactly the choices whose index is selected and in range;
\* out-of-range indices are dropped without an error, and with no in-range
\* index selected UpdatePackages is not called.
C2_CommitUpdatesInRangeSelection ==
  (/\ phase \notin {"start", "picker"}
   /\ quitCmd
   /\ ~m.quitting
   /\ runErr # "Error running program")
  => LET valid == { i \in m.selected : 0 <= i /\ i < Len(m.choices) } IN
     /\ phase = "done"
     /\ runErr = ""
     /\ Len(updCalls) <= 1
     /\ valid = {} => updCalls = << >>
     /\ \A c \in 1..Len(updCalls) :
          /\ Len(updCalls[c]) = Cardinality(valid)
          /\ Range(updCalls[c]) = { m.choices[i + 1] : i \in valid }

\* A commit ended the picker with index 0 and a forced out-of-range index
\* selected, and the one in-range choice was passed to UpdatePackages.
C2_Witness ==
  /\ phase = "done"
  /\ ~m.quitting
  /\ Len(m.choices) = 2
  /\ m.selected = {0, ForcedIndex}
  /\ updCalls = << << m.choices[1] >> >>

\* C3: after an abort event no updater operation is invoked, whatever
\* selected holds.
C3_AbortUpdatesNothing ==
  m.quitting => updCalls = << >>

\* The picker ended after an abort with an in-range index selected and an
\* updater configured.
C3_Witness ==
  /\ phase = "done"
  /\ runErr = ""
  /\ m.quitting
  /\ m.Updater
  /\ \E i \in m.selected : 0 <= i /\ i < Len(m.choices)

\* C4: a non-interactive run with the upgrade flag whose scan returned at
\* least one module invokes UpdatePackages exactly once, with Direct then
\* Indirect (then Transitive iff includeAll), whatever the display format.
C4_UpgradeUpdatesOnceInEveryFormat ==
  (/\ phase = "done"
   /\ ~opts.Interactive
   /\ opts.Upgrade
   /\ Len(modules) > 0)
  => updCalls = << buckets.direct \o buckets.indirect
                    \o (IF opts.All THEN buckets.transitive ELSE << >>) >>

\* C5: a non-interactive run without the upgrade flag constructs no updater
\* and invokes no updater operation.
C5_DryRunTouchesNoUpdater ==
  (~opts.Interactive /\ ~opts.Upgrade) => (updaterCreated = 0 /\ updCalls = << >>)

\* A dry run of a created scanner has listed an update and returned.
C5_Witness ==
  /\ phase = "done"
  /\ runErr = ""
  /\ ~opts.Interactive
  /\ ~opts.Upgrade
  /\ ~deps.Updater
  /\ \E i \in 1..Len(out) : out[i].kind = "row"

\* C6: a module whose Update is absent appears in no bucket, no rendered
\* output, not among the picker's choices and in no list passed to
\* UpdatePackages, and the run does not crash on it.
C6_NoModuleWithoutUpdateSurfaces ==
  /\ phase # "crashed"
  /\ \A mod \in AllBuckets \cup Range(m.choices) \cup UpdatedModules : mod.HasUpdate
  /\ \A mod \in Range(modules) : ~mod.HasUpdate => DisplayName(mod) \notin ShownNames

\* C7: when includeAll is not set, no module of the Transitive bucket is
\* rendered, offered as a picker choice or passed to UpdatePackages.
C7_TransitiveHiddenWithoutAll ==
  ~opts.All =>
    \A mod \in Range(buckets.transitive) :
      /\ DisplayName(mod) \notin ShownNames
      /\ mod \notin Range(m.choices)
      /\ mod \notin UpdatedModules

\* The bucket a module was put in is b and no other.
InBucketOnly(mod, b) ==
  /\ mod \in Range(buckets[b])
  /\ \A other \in {"direct", "indirect", "transitive"} \ {b} :
       mod \notin Range(buckets[other])

\* C8 as stated: direct and not dev-like or indirect-like -> Direct; direct
\* and dev-like or indirect-like -> Indirect; not direct -> Transitive,
\* except from-manifest and marked non-direct -> Indirect; a module with
\* direct = false is never placed in Direct.
C8_ClassificationAsStated ==
  /\ \A mod \in Range(modules) :
       InBucketOnly(mod,
         IF mod.Direct
         THEN IF mod.DependencyType \in {"devDependencies", "dev", "indirect"}
              THEN "indirect" ELSE "direct"
         ELSE IF mod.FromGoMod /\ mod.Indirect THEN "indirect" ELSE "transitive")
  /\ \A mod \in Range(buckets.direct) : mod.Direct

\* C8 amended: as stated, but a module with direct = false that is flagged
\* from-manifest goes to Indirect when its legacy indirect flag is set and
\* to Direct when it is not; only a module with direct = false that is not
\* from-manifest goes to Transitive.
C8_Classification ==
  /\ \A mod \in Range(modules) :
       InBucketOnly(mod,
         IF mod.Direct
         THEN IF mod.DependencyType \in {"devDependencies", "dev", "indirect"}
              THEN "indirect" ELSE "direct"
         ELSE IF mod.FromGoMod
              THEN IF mod.Indirect THEN "indirect" ELSE "direct"
              ELSE "transitive")
  /\ \A mod \in Range(buckets.direct) :
       mod.Direct \/ (mod.FromGoMod /\ ~mod.Indirect)

\* A scan returned a module of each kind the classification tells apart:
\* here a from-manifest module with direct = false in Direct, next to a
\* module in Transitive.
C8_Witness ==
  /\ phase = "done"
  /\ \E mod \in Range(buckets.direct) : ~mod.Direct /\ mod.FromGoMod /\ ~mod.Indirect
  /\ buckets.transitive # << >>

\* The bucket the claim derives from an entry of the dependency index.
BucketOfEntry(e) ==
  IF e.Direct
  THEN IF e.Type \in {"devDependencies", "dev", "indirect"} THEN "indirect" ELSE "direct"
  ELSE "indirect"

\* C9: a module whose name is in the index GetDependencyIndex returns is
\* put in the bucket the index entry determines, whatever the adapter
\* reported on the module.
C9_IndexDecidesBucket ==
  \A mod \in Range(modules) :
    mod.Name \in IndexNames(deps.Scanner)
      => mod \in Range(buckets[BucketOfEntry(IndexEntry(deps.Scanner, mod.Name))])

\* Ascending group key, and alphabetical by name within a group key.
InGroupedOrder(x, y) ==
  \/ GroupSortKey(x) < GroupSortKey(y)
  \/ /\ GroupSortKey(x) = GroupSortKey(y)
     /\ NameRank(DisplayName(x)) <= NameRank(DisplayName(y))

\* The bucket of the picker's choice at (1-based) position i.
SectionOf(i) ==
  IF i <= m.directEnd THEN "direct"
  ELSE IF i <= m.indirectEnd THEN "indirect" ELSE "transitive"

\* The title the row at position i of the output was written under.
TitleOf(i) ==
  LET before == { j \in 1..i : out[j].kind = "title" }
  IN  out[CHOOSE j \in before : \A k \in before : k <= j].text

ModuleNamed(name) == CHOOSE mod \in Range(modules) : DisplayName(mod) = name

\* C10: under grouped display, the modules of each bucket are rendered and
\* offered as picker choices in ascending group key, and alphabetically by
\* name within equal group keys.
C10_GroupedOrderByKeyThenName ==
  ParseFlag(opts.FormatFlag).Group =>
    /\ \A i, j \in 1..Len(m.choices) :
         (i < j /\ SectionOf(i) = SectionOf(j))
           => InGroupedOrder(m.choices[i], m.choices[j])
    /\ \A i, j \in { k \in 1..Len(out) : out[k].kind = "row" } :
         (i < j /\ TitleOf(i) = TitleOf(j))
           => InGroupedOrder(ModuleNamed(out[i].text), ModuleNamed(out[j].text))

\* C12: FilterModules with cooldownDays = N and an injected now removes
\* exactly the modules that have an update whose publish time parses and
\* lies less than N days before now, when N > 0; a module whose update time
\* is missing or does not parse is kept, a module without update is kept,
\* and N <= 0 removes nothing.
C12_CooldownRemovesExactlyFreshUpdates ==
  (call.op = "FilterModules" /\ result.done /\ call.filter = "")
  => LET Kept(mod) == ~(/\ call.cooldownDays > 0
                        /\ mod.HasUpdate
                        /\ mod.UpdateTime.kind = "rfc3339"
                        /\ call.now - mod.UpdateTime.at < call.cooldownDays * Day)
     IN  result.modules = SelectSeq(call.modules, Kept)

\* With a cooldown of two days, an update published exactly two days ago was
\* kept and one published a day and a half ago was removed.
C12_Witness ==
  /\ call.op = "FilterModules" /\ result.done
  /\ call.filter = "" /\ call.cooldownDays = 2
  /\ \E mod \in Range(result.modules) :
        mod.UpdateTime = RFC3339(call.now - 2 * Day)
  /\ \E mod \in Range(call.modules) \ Range(result.modules) :
        mod.UpdateTime = RFC3339(call.now - 2 * Day + 1)

\* C13: the generic name filter lets a module pass if and only if the
\* filter occurs in its name as a case-sensitive substring, or the filter
\* compiles as a regular expression that matches the name.
C13_FilterIsSubstringOrRegex ==
  (call.op = "FilterModules" /\ result.done /\ call.filter # ""
     /\ call.cooldownDays <= 0)
  => \A mod \in Range(call.modules) :
       mod \in Range(result.modules)
         <=> \/ contains(DisplayName(mod), call.filter)
             \/ /\ RegexCompiles(call.filter)
                /\ RegexMatches(call.filter, DisplayName(mod))

\* The update of mod has a publish time that parses and lies less than
\* days before the instant now.
Fresher(mod, days, now) ==
  ParsesRFC3339(mod.UpdateTime) /\ now - mod.UpdateTime.at < days * Day

\* C11: in a run with cooldown N > 0, a module whose update has a parsable
\* publish time less than N days before the injected now is not rendered,
\* not offered as a picker choice and not passed to UpdatePackages.
C11_CooldownHidesFreshUpdates ==
  opts.Cooldown > 0 =>
    /\ \A mod \in Range(m.choices) \cup UpdatedModules :
         ~Fresher(mod, opts.Cooldown, InjectedNow)
    /\ \A mod \in Range(modules) :
         Fresher(mod, opts.Cooldown, InjectedNow) => DisplayName(mod) \notin ShownNames

\* UpdatePackages was called on its own and has returned.
UpdateReturned == call.op = "UpdatePackages" /\ result.done

\* The package names a command carries, in order.
NamesOf(cmd) == [i \in 1..Len(cmd.pkgs) |-> cmd.pkgs[i][1]]

\* The command installs development dependencies.
IsDevCmd(cmd) == cmd.verb[Len(cmd.verb)] \in {"--save-dev", "--dev"}

\* C14: every updater issues its commands in a fixed order (Go: one go get
\* with all modules in input order, then go mod tidy; npm and yarn: the
\* production install, then the dev install; pip, uv and poetry: one
\* command per module in input order, pip then rewriting requirements.txt)
\* and stops at the first command that fails: no later command is run,
\* nothing is rolled back, and UpdatePackages returns an error.
C14_CommandsInOrderStopAtFirstFailure ==
  (UpdateReturned /\ Len(call.modules) > 0)
  => LET cmds == result.cmds
         mods == call.modules
         prod == SelectSeq(mods, LAMBDA md : md.DependencyType # "devDependencies")
         dev  == SelectSeq(mods, LAMBDA md : md.DependencyType = "devDependencies")
     IN
     /\ result.failedAt # 0 =>
          Len(cmds) = result.failedAt /\ result.err # "" /\ result.writes = {}
     /\ result.err = "" => result.failedAt = 0
     /\ call.kind = "go" =>
          /\ Len(cmds) \in {1, 2}
          /\ cmds[1].verb = <<"get">>
          /\ NamesOf(cmds[1]) = [i \in 1..Len(mods) |-> DisplayName(mods[i])]
          /\ Len(cmds) = 2 => cmds[2].verb = <<"mod", "tidy">> /\ cmds[2].pkgs = << >>
          /\ result.failedAt = 0 => Len(cmds) = 2
     /\ call.kind \in {"npm", "yarn"} =>
          /\ \A i, j \in 1..Len(cmds) :
               i < j => ~IsDevCmd(cmds[i]) /\ IsDevCmd(cmds[j])
          /\ \A i \in 1..Len(cmds) :
               NamesOf(cmds[i]) =
                 IF IsDevCmd(cmds[i]) THEN [k \in 1..Len(dev) |-> dev[k].Name]
                 ELSE [k \in 1..Len(prod) |-> prod[k].Name]
          /\ result.failedAt = 0 =>
               Len(cmds) = (IF Len(prod) > 0 THEN 1 ELSE 0) + (IF Len(dev) > 0 THEN 1 ELSE 0)
     /\ call.kind \in {"pip", "uv", "poetry"} =>
          /\ Len(cmds) <= Len(mods)
          /\ \A i \in 1..Len(cmds) : NamesOf(cmds[i]) = << mods[i].Name >>
          /\ result.failedAt = 0 => Len(cmds) = Len(mods)
          /\ result.writes # {} => call.kind = "pip" /\ Len(cmds) = Len(mods)

\* pip was given two modules and its first install failed: the second was
\* never run and an error came back.
C14_Witness ==
  /\ UpdateReturned
  /\ call.kind = "pip"
  /\ Len(call.modules) = 2
  /\ result.failedAt = 1
  /\ Len(result.cmds) = 1
  /\ result.err # ""

\* C15: for every updater, UpdatePackages on an empty list returns no
\* error, runs no subprocess and reads or writes no file.
C15_EmptyListIsNoOp ==
  (UpdateReturned /\ call.modules = << >>)
  => /\ result.err = ""
     /\ result.cmds = << >>
     /\ result.reads = {}
     /\ result.writes = {}

\* The pip updater returned from an empty list with requirements.txt
\* missing.
C15_Witness ==
  /\ UpdateReturned
  /\ call.kind = "pip"
  /\ call.reqFile = "missing"
  /\ call.modules = << >>
  /\ result.err = ""

\* An UpdatePackages call of this run returned an error.
UpdaterFailed ==
  runErr = "update failed" \/ Banner("Error updating") \in Range(out)

\* C16: a run ends with a non-zero exit code whenever the scan fails, the
\* filter or format option is invalid, or an updater call fails, including
\* an updater failure after a commit in the picker; it ends with exit code
\* 0 when there is nothing to update or the user aborts.
C16_ExitCodeTellsFailure ==
  (entry = "run" /\ phase = "done")
  => LET formatBad == ParseFlag(opts.FormatFlag).err
         filterBad == opts.Filter # "" /\ ~RegexCompiles(opts.Filter)
         scanBad   == ~formatBad /\ deps.Scanner.fault # "none"
         found     == ~formatBad /\ ~filterBad /\ ~scanBad
     IN
     /\ (formatBad \/ filterBad \/ scanBad \/ UpdaterFailed) => ExitCode # 0
     /\ (found /\ modules = << >>) => ExitCode = 0
     /\ (found /\ m.quitting /\ runErr # "Error running program") => ExitCode = 0

\* The scan of this run failed: the subprocess of the adapter failed or its
\* output did not parse.
ScanFailed == deps.Scanner.fault \in {"tool", "parse"}

\* C17: for every scanner variant, when the subprocess fails or its output
\* does not parse, GetUpdates returns an error and the run stops with that
\* error: nothing is rendered, no picker is started, no updater is called,
\* and the run does not end as a success with nothing to update.
C17_FailedScanStopsTheRun ==
  (entry = "run" /\ phase # "start" /\ ScanFailed)
  => /\ phase = "done"
     /\ runErr # ""
     /\ ShownNames = {}
     /\ Banner("All dependencies match") \notin Range(out)
     /\ m = NoModel
     /\ updCalls = << >>

\* C18: for every scanner variant, GetDependencyIndex on a project whose
\* manifest does not exist returns an empty index and no error, and it
\* returns an error only when the manifest exists but cannot be read or
\* parsed.
C18_MissingManifestIsEmptyIndex ==
  (call.op = "GetDependencyIndex" /\ result.done)
  => /\ call.scn.fault = "manifest-missing" => (result.err = "" /\ result.idx = {})
     /\ result.err # "" => call.scn.fault = "manifest-bad"

\* The Go adapter's GetUpdates was called on its own with a --filter that is
\* not a regular expression, and has returned.
GoScanWithBadPattern ==
  /\ call.op = "GetUpdates"
  /\ call.scn.kind = "go"
  /\ call.o.Filter = "re("
  /\ result.done

\* C19: the Go adapter's GetUpdates, given a non-empty filter that is not a
\* valid regular expression, returns an error and no modules, and returns
\* before `go list` is run; it does not fall back to matching the filter
\* as a substring.
C19_GoRejectsInvalidPattern ==
  GoScanWithBadPattern
  => /\ result.err # ""
     /\ result.modules = << >>
     /\ "go list" \notin Range(result.cmds)

\* C19 witness: go.mod is readable and `go list` would have succeeded and
\* reported updates, and the call fails on the pattern without running it;
\* so does a call in a project where `go list` would have failed.
C19_Witness ==
  /\ GoScanWithBadPattern
  /\ call.scn.fault \in {"none", "tool"}
  /\ Len(call.scn.mods) > 0
  /\ result.err = "invalid filter pattern"
  /\ result.cmds = << >>

\* C20: in every state of the picker, an empty list of choices and a cursor
\* set from outside to a position out of range included, a move-up event
\* sets cursor to max(0, cursor - 1) and a move-down event sets cursor to
\* min(len(choices) - 1, cursor + 1).
C20_MovesClampTheCursor ==
  [][ /\ \A k \in UpKeys :
           Deliver(k) => m'.cursor = IF m.cursor - 1 > 0 THEN m.cursor - 1 ELSE 0
      /\ \A k \in DownKeys :
           Deliver(k) => m'.cursor = IF m.cursor + 1 < Len(m.choices) - 1
                                     THEN m.cursor + 1
                                     ELSE Len(m.choices) - 1 ]_vars

\* C21: once model.Update has handled a commit or an abort, the model
\* records that it is quitting, and no message handled afterwards changes
\* cursor, selected or the quitting flag.
C21_QuittingIsTerminal ==
  [][ /\ quitCmd' => m'.quitting
      /\ quitCmd => \A msg \in Msgs :
                      Deliver(msg) => /\ m'.cursor = m.cursor
                                      /\ m'.selected = m.selected
                                      /\ m'.quitting = m.quitting ]_vars

\* The counts a module must carry after enrichment for a version: those the
\* advisory service reports, or zero when the lookup failed.
ExpectedCounts(name, version) ==
  IF <<name, version>> \in deps.Vuln THEN NoVulns ELSE Advisories(name, version)

\* C22: in a run with vulnerability enrichment, a failed advisory lookup
\* leaves the corresponding counts of the module at zero, every other
\* lookup is still made and stored, no field of a module other than the
\* two snapshots is changed, and a run in which nothing else can fail
\* ends without an error.
C22_FailedLookupIsSwallowed ==
  (entry = "run" /\ opts.ShowVulnerabilities /\ phase # "start")
  => LET scanned == deps.Scanner.mods IN
     /\ Len(modules) = Len(scanned)
     /\ \A i \in 1..Len(modules) :
          /\ [modules[i] EXCEPT !.VulnCurrent = NoVulns, !.VulnUpdate = NoVulns]
               = scanned[i]
          /\ modules[i].HasUpdate =>
               /\ modules[i].VulnCurrent =
                    ExpectedCounts(DisplayName(scanned[i]), scanned[i].Version)
               /\ modules[i].VulnUpdate =
                    ExpectedCounts(DisplayName(scanned[i]), scanned[i].UpdateVersion)
          /\ ~modules[i].HasUpdate =>
               modules[i].VulnCurrent = NoVulns /\ modules[i].VulnUpdate = NoVulns
     /\ (/\ ~opts.Upgrade /\ ~opts.Interactive
         /\ \A i \in 1..Len(scanned) : scanned[i].HasUpdate)
        => (phase = "done" /\ runErr = "")

\* C22 witness: a run has ended without error in which a lookup for the
\* first module failed and the lookups for the second were stored.
C22_Witness ==
  /\ entry = "run" /\ opts.ShowVulnerabilities
  /\ phase = "done" /\ runErr = ""
  /\ Len(modules) = 2
  /\ <<DisplayName(modules[1]), modules[1].Version>> \in deps.Vuln
  /\ modules[1].VulnCurrent = NoVulns
  /\ modules[2].VulnCurrent # NoVulns
  /\ modules[2].VulnUpdate # NoVulns

\* The order of preference among package managers.
PriorityOrder == << "go", "pnpm", "yarn", "npm", "poetry", "uv", "pip" >>

\* The marker files of a package manager.
MarkersOf(manager) ==
  detectors[CHOOSE i \in 1..Len(detectors) : detectors[i].manager = manager].files

\* The package managers whose marker files are all in the directory, in
\* the order of preference.
PresentManagers(dir) ==
  SelectSeq(PriorityOrder, LAMBDA manager : MarkersOf(manager) \subseteq dir.files)

\* C23: DetectSingle returns, among the package managers whose marker files
\* are all present in the directory, the first in the order go, pnpm, yarn,
\* npm, poetry, uv, pip (poetry needs both poetry.lock and pyproject.toml);
\* Detect lists all of them in that order; both return an error exactly
\* when the marker files of no manager are present.
C23_DetectionFollowsPriority ==
  /\ MarkersOf("poetry") = {"poetry.lock", "pyproject.toml"}
  /\ (call.op \in {"Detect", "DetectSingle"} /\ result.done)
     => LET present == PresentManagers(call.dir) IN
        /\ result.err # "" <=> Len(present) = 0
        /\ result.err # "" => result.managers = << >>
        /\ (result.err = "" /\ call.op = "Detect") => result.managers = present
        /\ (result.err = "" /\ call.op = "DetectSingle")
             => result.managers = << present[1] >>

\* The pnpm adapter's GetUpdates was called on its own, without a filter,
\* in a project that can be scanned, and has returned.
PnpmScanReturned ==
  /\ call.op = "GetUpdates"
  /\ call.scn.kind = "pnpm"
  /\ call.scn.fault = "none"
  /\ call.o.Filter = ""
  /\ result.done

\* C24: the pnpm adapter's GetUpdates with IncludeAll = false returns no
\* module of type devDependencies and still returns every outdated
\* package the manifest does not declare, with Direct = false and type
\* "transitive"; with IncludeAll = true it returns every outdated package,
\* those declared for development typed devDependencies.
C24_PnpmHidesDevKeepsTransitive ==
  PnpmScanReturned
  => LET returned   == Range(result.modules)
         declared   == call.scn.Dependencies \cup call.scn.DevDependencies
         NamedAs(name) == { mod \in returned : mod.Name = name }
     IN
     /\ result.err = ""
     /\ ~call.o.All =>
          /\ \A mod \in returned : mod.DependencyType # "devDependencies"
          /\ \A x \in call.scn.outdated :
               x.name \notin declared =>
                 \E mod \in NamedAs(x.name) :
                   ~mod.Direct /\ mod.DependencyType = "transitive"
     /\ call.o.All =>
          /\ { mod.Name : mod \in returned } = { x.name : x \in call.scn.outdated }
          /\ \A mod \in returned :
               mod.Name \in call.scn.DevDependencies
                 => mod.DependencyType = "devDependencies"

\* C25: a toggle with the cursor in range flips the membership of the
\* cursor's index in selected and of no other index, leaves the cursor
\* where it is, and a second toggle right after it restores selected.
C25_ToggleFlipsCursorOnly ==
  [][ \A k \in ToggleKeys :
        (Deliver(k) /\ 0 <= m.cursor /\ m.cursor <= Len(m.choices) - 1)
          => /\ m'.cursor = m.cursor
             /\ (m.cursor \in m'.selected) <=> (m.cursor \notin m.selected)
             /\ m'.selected \ {m.cursor} = m.selected \ {m.cursor}
             /\ \A k2 \in ToggleKeys : Update(m', k2).model.selected = m.selected ]_vars

\* C25 witness: the toggle handled last had the cursor in range and took
\* the cursor's index, selected by an earlier toggle, out of selected again,
\* while the first index stays selected.
C25_Witness ==
  /\ phase = "picker"
  /\ lastEvent = "toggle"
  /\ 0 < m.cursor /\ m.cursor <= Len(m.choices) - 1
  /\ m.cursor \notin m.selected
  /\ 0 \in m.selected

\* C26: whatever a run did, every other run on the same tool output, the
\* same options and the same key events does the same: the list of modules
\* the run renders and offers in the picker is the one every possible
\* GetUpdates result on this input has, and the list passed to
\* UpdatePackages after a commit is the one every iteration order of the
\* selected set gives.
C26_MapOrderNeverShows ==
  [][ /\ (Run /\ ~ParseFlag(opts.FormatFlag).err)
           => \A res \in GetUpdates(deps.Scanner, opts) :
                res.err = "" => modules' = res.modules
      /\ (ProgramExit /\ Len(updCalls') > Len(updCalls))
           => \A order \in SetToSeqs(CollectSelection(m)) :
                updCalls'[Len(updCalls')]
                  = [k \in 1..Len(order) |-> m.choices[order[k] + 1]] ]_vars

\* groupModules was called on its own and has returned.
GroupReturned == call.op = "groupModules" /\ result.done

\* C27: groupModules puts every module of its input into exactly one of
\* the three buckets, so that the bucket sizes add up to the length of the
\* input and nothing is lost or doubled; within each bucket the modules are
\* in the order of the input; and the input list is as it was.
C27_BucketsPartitionInOrder ==
  GroupReturned
  => LET input == call.modules
         InBucket(b) == SelectSeq(input, LAMBDA mod : mod \in Range(b))
     IN
     /\ Len(result.direct) + Len(result.indirect) + Len(result.transitive) = Len(input)
     /\ Range(result.direct) \cap Range(result.indirect) = {}
     /\ Range(result.direct) \cap Range(result.transitive) = {}
     /\ Range(result.indirect) \cap Range(result.transitive) = {}
     /\ result.direct = InBucket(result.direct)
     /\ result.indirect = InBucket(result.indirect)
     /\ result.transitive = InBucket(result.transitive)
     /\ result.modules = input

\* C27 witness: a list of three modules whose first and last are the same
\* module was split with that module twice in the Direct bucket and the
\* module between them in the Transitive bucket.
C27_Witness ==
  /\ GroupReturned
  /\ Len(call.modules) = 3
  /\ call.modules[1] = call.modules[3]
  /\ result.direct = << call.modules[1], call.modules[3] >>
  /\ result.transitive = << call.modules[2] >>

\* C28: in every state the picker reaches from its initial state by key
\* events alone, 0 <= cursor <= max(0, len(choices) - 1), every index in
\* selected lies in 0..len(choices) - 1, and
\* 0 <= directEnd <= indirectEnd <= len(choices).
C28_PickerStateInBounds ==
  ~tampered
  => LET last == IF Len(m.choices) - 1 > 0 THEN Len(m.choices) - 1 ELSE 0 IN
     /\ 0 <= m.cursor /\ m.cursor <= last
     /\ m.selected \subseteq 0..(Len(m.choices) - 1)
     /\ 0 <= m.directEnd
     /\ m.directEnd <= m.indirectEnd
     /\ m.indirectEnd <= Len(m.choices)

\* C28 witness: by key events alone every choice of a list of at least two
\* was selected, and a further move-down was handled on the last of them.
C28_Witness ==
  /\ phase = "picker"
  /\ ~tampered
  /\ lastEvent = "move-down"
  /\ Len(m.choices) >= 2
  /\ m.cursor = Len(m.choices) - 1
  /\ m.selected = 0..(Len(m.choices) - 1)

\* C29: move-up and move-down never change selected; toggle, commit and
\* abort never change the cursor; a key that is not bound and a message
\* that is no key event change nothing and request no quit; and no
\* message changes choices, directEnd or indirectEnd.
C29_EventsTouchOnlyTheirFields ==
  [][ \A msg \in Msgs :
        Deliver(msg)
        => /\ msg \in UpKeys \cup DownKeys => m'.selected = m.selected
           /\ msg \in ToggleKeys \cup CommitKeys \cup AbortKeys => m'.cursor = m.cursor
           /\ Binding(msg) = "none" => (m' = m /\ quitCmd' = quitCmd)
           /\ m'.choices = m.choices
           /\ m'.directEnd = m.directEnd
           /\ m'.indirectEnd = m.indirectEnd ]_vars

\* C29 witness: with the cursor off the first choice and a choice selected,
\* an unbound key or a message that is no key event was handled last, and
\* no quit is requested.
C29_Witness ==
  /\ phase = "picker"
  /\ lastEvent = "none"
  /\ m.cursor > 0
  /\ m.selected # {}
  /\ ~quitCmd

\* The choices of a section of the picker, by the two recorded offsets.
SectionChoices(section) ==
  CASE section = "direct"   -> SubSeq(m.choices, 1, m.directEnd)
    [] section = "indirect" -> SubSeq(m.choices, m.directEnd + 1, m.indirectEnd)
    [] OTHER                -> SubSeq(m.choices, m.indirectEnd + 1, Len(m.choices))

\* C30: in the picker's view the heading of each section (Direct, Indirect,
\* Transitive) is rendered at most once, is rendered exactly when the
\* non-interactive renderer prints a heading for that bucket, that is when
\* the section has at least one row, and no other section heading stands
\* between it and the first row of its section.
C30_HeadingsOnlyForNonEmptySections ==
  (phase = "picker" /\ ~m.quitting)
  => LET v == View(m) IN
     \A section \in {"direct", "indirect", "transitive"} :
       LET at    == { i \in 1..Len(v) : v[i] = [kind |-> "title", text |-> section] }
           group == SectionChoices(section)
       IN
       /\ Cardinality(at) <= 1
       /\ (at # {}) <=> (Len(printGroup(section, group, FALSE).lines) > 0)
       /\ \A i \in at :
            \E j \in (i + 1)..Len(v) :
              /\ v[j] = [kind |-> "row", text |-> DisplayName(group[1])]
              /\ \A k \in (i + 1)..(j - 1) : v[k].kind = "label"

====
